---- MODULE Spec2Model ----
(***************************************************************************)
(* The posts routes of src/routes/api/posts.js as a state machine.         *)
(*                                                                         *)
(* The state is the post collection and the requests in flight.  A handler *)
(* that reads a post, changes it and saves it is two steps, split at its   *)
(* awaits: the load (Post.findById and the synchronous code that follows   *)
(* it, up to the await of post.save() / post.remove()) and the save (the   *)
(* store write and the response that follows it).  Between the two steps   *)
(* of one request the steps of other requests may run.  The request keeps  *)
(* the document it loaded; its local changes are private until the save,   *)
(* so they are applied to the loaded document in the save step.            *)
(***************************************************************************)
EXTENDS Integers, Sequences, FiniteSets, TLC

VARIABLES posts,     \* the post collection: post id -> stored document
          assigned,  \* post ids the store has handed out (never reused)
          nextId,    \* next comment id the store hands out
          req,       \* request slot -> the request in flight in it
          out,       \* the request the latest step completed, if it completed one
          inflight,  \* how many requests the server has in flight at most
          textRequired  \* whether the comment schema requires a comment's text

vars == <<posts, assigned, nextId, req, out, inflight, textRequired>>

\* ---------------------------------------------------------------- bounds
MaxComments == 2      \* comments a post holds at most
MaxIds == 2           \* comment ids the store hands out at most

\* ---------------------------------------------------------------- domains
Users == {"u1", "u2"}
Posters == {"u1"}                 \* who creates posts (the users are alike)
PostIds == {"p1"}                 \* ids the store can assign; an id is that
                                  \* of no post before the store assigns it
                                  \* and after the post is removed
MalformedPostId == "zz"           \* not an ObjectId: findById throws a CastError
PostIdParams == PostIds \cup {MalformedPostId}
NewText == "b"                    \* the text of update requests
FirstText == "a"                  \* the text of create and add comment requests
EmptyText == ""                   \* fails check('text').not().isEmpty()
MalformedCommentId == 0           \* a :comment_id that is no ObjectId
CommentIdParams == {MalformedCommentId} \cup (1 .. MaxIds)
Slots == {1, 2}

\* the User Directory: name and avatar of a user
NameOf(u) == "name-" \o u
AvatarOf(u) == "avatar-" \o u

NoUser == "-"
NoText == "-"

\* ---------------------------------------------------------------- documents
\* a post that is not in the collection (findById yields null)
Absent == [exists |-> FALSE, user |-> NoUser, text |-> NoText, name |-> NoText,
           avatar |-> NoText, likes |-> <<>>, comments |-> <<>>]

\* new Post({text, name, avatar, user}): no likes, no comments
NewPost(uid, text) ==
  [exists |-> TRUE, user |-> uid, text |-> text, name |-> NameOf(uid),
   avatar |-> AvatarOf(uid), likes |-> <<>>, comments |-> <<>>]

\* newComment = {text, name, avatar, user}, with the _id the subdocument gets
NewComment(id, uid, text) ==
  [id |-> id, user |-> uid, text |-> text, name |-> NameOf(uid),
   avatar |-> AvatarOf(uid)]

\* the response object `res`, which res.status(401).json(..) returns and the
\* map callback hands back in place of the comment
ResObject == [id |-> -1, user |-> NoUser, text |-> NoText, name |-> NoText,
              avatar |-> NoText]

\* the subdocument the comment array makes of a `res` assigned into it: none
\* of the comment's paths is set, the _id is fresh
BlankComment(id) == [id |-> id, user |-> NoUser, text |-> NoText,
                     name |-> NoText, avatar |-> NoText]

\* ---------------------------------------------------------------- array code
\* a duplicate check that never finds the caller's like
AlreadyLikedNever(likes, uid) == FALSE

\* post.likes.filter((like) => like.user.toString() === req.user.id).length > 0
AlreadyLiked(likes, uid) == Len(SelectSeq(likes, LAMBDA l : l = uid)) > 0

\* post.likes.filter(..).length === 0
NotYetLiked(likes, uid) == Len(SelectSeq(likes, LAMBDA l : l = uid)) = 0

\* array.unshift(x)
Unshift(s, x) == <<x>> \o s

\* array.indexOf(x): 0-based index of the first match, -1 without one
IndexOf(s, x) ==
  IF \E i \in 1 .. Len(s) : s[i] = x
  THEN (CHOOSE i \in 1 .. Len(s) :
          s[i] = x /\ \A j \in 1 .. (i - 1) : s[j] # x) - 1
  ELSE -1

\* array.splice(idx, 1): a negative idx counts from the end
Splice(s, idx) ==
  LET start == IF idx < 0
               THEN (IF Len(s) + idx < 0 THEN 0 ELSE Len(s) + idx)
               ELSE (IF idx > Len(s) THEN Len(s) ELSE idx)
  IN  SubSeq(s, 1, start) \o SubSeq(s, start + 2, Len(s))

\* an unlike that removes the last entry, whoever's it is
RemoveLikeLast(likes, uid) == Splice(likes, -1)

\* post.likes.map(..).indexOf(req.user.id); post.likes.splice(removeIndex, 1)
RemoveLike(likes, uid) == Splice(likes, IndexOf(likes, uid))

\* a map callback that matches the caller's comments instead of the id's
MapCommentsByUser(comments, cid, uid, text) ==
  [i \in 1 .. Len(comments) |->
     IF comments[i].user = uid
     THEN [comments[i] EXCEPT !.text = text]
     ELSE comments[i]]

\* the callback of post.comments.map in update comment
MapComments(comments, cid, uid, text) ==
  [i \in 1 .. Len(comments) |->
     IF comments[i].id = cid
     THEN IF comments[i].user # uid
          THEN ResObject
          ELSE [comments[i] EXCEPT !.text = text]
     ELSE comments[i]]

\* a filter callback whose rejection is falsy: the matched comment is dropped
FilterCommentsDropMatched(comments, cid, uid) ==
  SelectSeq(comments, LAMBDA c : c.id # cid)

\* the callback of post.comments.filter in delete comment: `res` is truthy
FilterComments(comments, cid, uid) ==
  SelectSeq(comments,
            LAMBDA c : IF c.id = cid
                       THEN (IF c.user # uid THEN TRUE ELSE FALSE)
                       ELSE TRUE)

\* the res.status(401).json(..) calls the callback makes during the pass
Rejections(comments, cid, uid) ==
  [i \in 1 .. Len(SelectSeq(comments,
                            LAMBDA c : c.id = cid /\ c.user # uid)) |-> 401]

\* post.comments = newCommentArray: every element becomes a subdocument
CastComments(arr, nid) ==
  [i \in 1 .. Len(arr) |-> IF arr[i] = ResObject THEN BlankComment(nid) ELSE arr[i]]

\* ---------------------------------------------------------------- the store
\* Post.findById(id): the document, or null (Absent) when there is none
FindById(pid) == IF pid \in PostIds THEN posts[pid] ELSE Absent

\* findById throws a CastError of kind 'ObjectId' on an id that is none; the
\* catch block answers it 404 'Post not found', like the null of a missing post
NotFound(pid) == pid = MalformedPostId \/ ~FindById(pid).exists

\* post.save() of a loaded document: the write replaces the stored document
\* by the request's copy; it fails when the document is no longer stored
Saved(pid, d) == IF posts[pid].exists THEN [posts EXCEPT ![pid] = d] ELSE posts

\* whether save() accepts the comment array: a subdocument without text
\* fails the validation of a schema that requires the text
Validates(comments) ==
  textRequired => \A i \in 1 .. Len(comments) : comments[i].text # NoText

\* an owner check that lets every caller pass
IsAuthorAnyone(post, uid) == TRUE

\* post.user.toString() !== req.user.id, negated: the caller wrote the post
IsAuthor(post, uid) == post.user = uid

\* ---------------------------------------------------------------- requests
Idle == [pc |-> "idle", op |-> "-", caller |-> NoUser, pid |-> "-", cid |-> 0,
         text |-> NoText, doc |-> Absent, nid |-> 0, resp |-> <<>>]

\* a request between its load and its save
Loaded(op, caller, pid, cid, text, doc, nid, resp) ==
  [pc |-> "loaded", op |-> op, caller |-> caller, pid |-> pid, cid |-> cid,
   text |-> text, doc |-> doc, nid |-> nid, resp |-> resp]

\* a completed request: resp are the response calls it made, in order (the
\* first one is delivered, a later one throws ERR_HTTP_HEADERS_SENT); saves
\* counts its post.save() calls; stale tells that the stored post had changed
\* since the request loaded it; body is the post a 200 carries
Done(op, resp, saves, stale, body) ==
  [op |-> op, resp |-> resp, saves |-> saves, stale |-> stale, body |-> body]

NoOut == Done("-", <<>>, 0, FALSE, Absent)

\* res.json(..) after the save: with a response already sent it throws, and
\* the catch block calls res.status(500).send(..)
ReplyOk(resp) == IF resp = <<>> THEN <<200>> ELSE resp \o <<200, 500>>

\* the catch block after save() threw
ReplyErr(resp) == resp \o <<500>>

\* no request in flight has been overtaken: the post it loaded is the stored one
Settled ==
  \A s \in Slots : req[s].pc = "loaded" => posts[req[s].pid] = req[s].doc

\* a new request takes the first slot no request is in; it is admitted while
\* fewer than `inflight` requests are in flight and none of them is overtaken
Free(r) ==
  /\ req[r].pc = "idle"
  /\ \A s \in Slots : s < r => req[s].pc # "idle"
  /\ r <= inflight
  /\ Settled

Init ==
  /\ posts = [p \in PostIds |-> Absent]
  /\ assigned = {}
  /\ nextId = 1
  /\ req = [r \in Slots |-> Idle]
  /\ out = NoOut
  /\ inflight \in Slots
  /\ textRequired \in BOOLEAN

\* a request that ends in its first step
Answer(op, code, body) ==
  /\ out' = Done(op, <<code>>, 0, FALSE, body)
  /\ UNCHANGED <<posts, assigned, nextId, req, inflight, textRequired>>

\* a request that goes on to its save: the step completes no request
Proceed(r, q) ==
  /\ req' = [req EXCEPT ![r] = q]
  /\ nextId' = IF q.nid = 0 THEN nextId ELSE nextId + 1
  /\ out' = NoOut
  /\ UNCHANGED <<posts, assigned, inflight, textRequired>>

\* await post.save() with the local changes d, then the response
Persist(r, d, accepted) ==
  LET q == req[r]
      ok == accepted /\ posts[q.pid].exists
  IN  /\ posts' = IF ok THEN Saved(q.pid, d) ELSE posts
      /\ out' = Done(q.op,
                     IF ok THEN ReplyOk(q.resp) ELSE ReplyErr(q.resp),
                     1, posts[q.pid] # q.doc, Absent)
      /\ req' = [req EXCEPT ![r] = Idle]
      /\ UNCHANGED <<assigned, nextId, inflight, textRequired>>

\* ---------------------------------------------------------------- handlers
\* POST api/posts
CreatePost(caller, text) ==
  IF text = EmptyText
  THEN Answer("create", 400, Absent)
  ELSE \E id \in PostIds \ assigned :
         /\ posts' = [posts EXCEPT ![id] = NewPost(caller, text)]
         /\ assigned' = assigned \cup {id}
         /\ out' = Done("create", <<200>>, 1, FALSE,
                        NewPost(caller, text))
         /\ UNCHANGED <<nextId, req, inflight, textRequired>>

\* GET api/posts/:post_id
GetPost(caller, pid) ==
  IF NotFound(pid)
  THEN Answer("get", 404, Absent)
  ELSE Answer("get", 200, FindById(pid))

\* DELETE api/posts/:post_id, up to the await of post.remove()
DeletePostLoad(r, caller, pid) ==
  /\ Free(r)
  /\ IF NotFound(pid)
     THEN Answer("delpost", 404, Absent)
     ELSE IF ~IsAuthor(FindById(pid), caller)
     THEN Answer("delpost", 401, Absent)
     ELSE Proceed(r, Loaded("delpost", caller, pid, 0, NoText, FindById(pid),
                            0, <<>>))

\* post.remove() and res.json({msg: 'Post removed', post})
DeletePostRemove(r) ==
  LET q == req[r] IN
  /\ q.pc = "loaded" /\ q.op = "delpost"
  /\ posts' = [posts EXCEPT ![q.pid] = Absent]
  /\ out' = Done(q.op, ReplyOk(q.resp), 0,
                 posts[q.pid] # q.doc, q.doc)
  /\ req' = [req EXCEPT ![r] = Idle]
  /\ UNCHANGED <<assigned, nextId, inflight, textRequired>>

\* PUT api/posts/:post_id, up to the await of post.save()
UpdatePostLoad(r, caller, pid, text) ==
  /\ Free(r)
  /\ IF text = EmptyText
     THEN Answer("updpost", 400, Absent)
     ELSE IF NotFound(pid)
     THEN Answer("updpost", 404, Absent)
     ELSE IF ~IsAuthor(FindById(pid), caller)
     THEN Answer("updpost", 401, Absent)
     ELSE Proceed(r, Loaded("updpost", caller, pid, 0, text, FindById(pid),
                            0, <<>>))

\* post.text = req.body.text; post.save(); res.json(..)
UpdatePostSave(r) ==
  LET q == req[r] IN
  /\ q.pc = "loaded" /\ q.op = "updpost"
  /\ Persist(r, [q.doc EXCEPT !.text = q.text], TRUE)

\* PUT api/posts/:post_id/like, up to the await of post.save()
LikeLoad(r, caller, pid) ==
  /\ Free(r)
  /\ IF NotFound(pid)
     THEN Answer("like", 404, Absent)
     ELSE IF AlreadyLiked(FindById(pid).likes, caller)
     THEN Answer("like", 400, Absent)
     ELSE Proceed(r, Loaded("like", caller, pid, 0, NoText, FindById(pid),
                            0, <<>>))

\* a like pushed onto the stored list instead of the loaded one
LikeSavePush(r) ==
  LET q == req[r] IN
  /\ q.pc = "loaded" /\ q.op = "like"
  /\ Persist(r, [posts[q.pid] EXCEPT !.likes = Unshift(@, q.caller)], TRUE)

\* post.likes.unshift({user}); post.save(); res.json(post.likes)
LikeSave(r) ==
  LET q == req[r] IN
  /\ q.pc = "loaded" /\ q.op = "like"
  /\ Persist(r, [q.doc EXCEPT !.likes = Unshift(@, q.caller)], TRUE)

\* PUT api/posts/:post_id/unlike, up to the await of post.save()
UnlikeLoad(r, caller, pid) ==
  /\ Free(r)
  /\ IF NotFound(pid)
     THEN Answer("unlike", 404, Absent)
     ELSE IF NotYetLiked(FindById(pid).likes, caller)
     THEN Answer("unlike", 400, Absent)
     ELSE Proceed(r, Loaded("unlike", caller, pid, 0, NoText, FindById(pid),
                            0, <<>>))

\* post.likes.splice(removeIndex, 1); post.save(); res.json(post.likes)
UnlikeSave(r) ==
  LET q == req[r] IN
  /\ q.pc = "loaded" /\ q.op = "unlike"
  /\ Persist(r, [q.doc EXCEPT !.likes = RemoveLike(@, q.caller)], TRUE)

\* POST api/posts/:post_id/comments, up to the await of post.save(): the
\* unshift makes the subdocument, with its _id
AddCommentLoad(r, caller, pid, text) ==
  /\ Free(r)
  /\ IF text = EmptyText
     THEN Answer("addcomment", 400, Absent)
     ELSE IF NotFound(pid)
     THEN Answer("addcomment", 404, Absent)
     ELSE /\ Len(FindById(pid).comments) < MaxComments
          /\ nextId <= MaxIds
          /\ Proceed(r, Loaded("addcomment", caller, pid, 0, text,
                               FindById(pid), nextId, <<>>))

\* an add comment that puts the comment in front of the stored list
AddCommentSaveMerge(r) ==
  LET q == req[r] IN
  /\ q.pc = "loaded" /\ q.op = "addcomment"
  /\ Persist(r, [posts[q.pid] EXCEPT
                   !.comments = Unshift(@, NewComment(q.nid, q.caller, q.text))],
             TRUE)

\* post.comments.unshift(newComment); post.save(); res.json(post.comments)
AddCommentSave(r) ==
  LET q == req[r] IN
  /\ q.pc = "loaded" /\ q.op = "addcomment"
  /\ Persist(r, [q.doc EXCEPT
                   !.comments = Unshift(@, NewComment(q.nid, q.caller, q.text))],
             TRUE)

\* PUT api/posts/:post_id/comments/:comment_id, up to the await of
\* post.save(): the map pass sends the 401 and goes on; a `res` put into the
\* array becomes a subdocument with an _id of its own
UpdateCommentLoad(r, caller, pid, cid, text) ==
  /\ Free(r)
  /\ IF text = EmptyText
     THEN Answer("updcomment", 400, Absent)
     ELSE IF NotFound(pid)
     THEN Answer("updcomment", 404, Absent)
     ELSE LET post == FindById(pid)
              sent == Rejections(post.comments, cid, caller)
          IN  /\ sent # <<>> => nextId <= MaxIds
              /\ Proceed(r, Loaded("updcomment", caller, pid, cid, text, post,
                                   IF sent # <<>> THEN nextId ELSE 0, sent))

\* post.comments = newCommentArray; post.save(); res.json(post.comments)
UpdateCommentSave(r) ==
  LET q == req[r]
      newCommentArray == CastComments(
          MapComments(q.doc.comments, q.cid, q.caller, q.text), q.nid)
  IN  /\ q.pc = "loaded" /\ q.op = "updcomment"
      /\ Persist(r, [q.doc EXCEPT !.comments = newCommentArray],
                 Validates(newCommentArray))

\* DELETE api/posts/:post_id/comments/:comment_id, up to the await of
\* post.save(): the filter pass sends the 401 and goes on
DeleteCommentLoad(r, caller, pid, cid) ==
  /\ Free(r)
  /\ IF NotFound(pid)
     THEN Answer("delcomment", 404, Absent)
     ELSE Proceed(r, Loaded("delcomment", caller, pid, cid, NoText,
                            FindById(pid), 0,
                            Rejections(FindById(pid).comments, cid, caller)))

\* post.comments = newCommentArray; post.save(); res.json(post.comments)
DeleteCommentSave(r) ==
  LET q == req[r] IN
  /\ q.pc = "loaded" /\ q.op = "delcomment"
  /\ Persist(r, [q.doc EXCEPT
                   !.comments = FilterComments(@, q.cid, q.caller)], TRUE)

\* ---------------------------------------------------------------- behaviour
Next ==
  \/ \E u \in Posters, t \in {FirstText, EmptyText} : CreatePost(u, t)
  \/ \E u \in Users, p \in PostIdParams : GetPost(u, p)
  \/ \E r \in Slots, u \in Users, p \in PostIdParams : DeletePostLoad(r, u, p)
  \/ \E r \in Slots : DeletePostRemove(r)
  \/ \E r \in Slots, u \in Users, p \in PostIdParams,
        t \in {NewText, EmptyText} : UpdatePostLoad(r, u, p, t)
  \/ \E r \in Slots : UpdatePostSave(r)
  \/ \E r \in Slots, u \in Users, p \in PostIdParams : LikeLoad(r, u, p)
  \/ \E r \in Slots : LikeSave(r)
  \/ \E r \in Slots, u \in Users, p \in PostIdParams : UnlikeLoad(r, u, p)
  \/ \E r \in Slots : UnlikeSave(r)
  \/ \E r \in Slots, u \in Users, p \in PostIdParams,
        t \in {FirstText, EmptyText} : AddCommentLoad(r, u, p, t)
  \/ \E r \in Slots : AddCommentSave(r)
  \/ \E r \in Slots, u \in Users, p \in PostIdParams, c \in CommentIdParams,
        t \in {NewText, EmptyText} : UpdateCommentLoad(r, u, p, c, t)
  \/ \E r \in Slots : UpdateCommentSave(r)
  \/ \E r \in Slots, u \in Users, p \in PostIdParams, c \in CommentIdParams :
        DeleteCommentLoad(r, u, p, c)
  \/ \E r \in Slots : DeleteCommentSave(r)

\* requests served one at a time
InitOne == Init /\ inflight = 1
Spec == InitOne /\ [][Next]_vars

\* two requests in flight: the steps of one run between the load and the
\* save of the other.  The requests are the ones that read, change and save a
\* post, with a post id and a text that pass the checks before the load.
NextRace ==
  \/ \E u \in Posters : CreatePost(u, FirstText)
  \/ \E r \in Slots, u \in Users, p \in PostIds : DeletePostLoad(r, u, p)
  \/ \E r \in Slots : DeletePostRemove(r)
  \/ \E r \in Slots, u \in Users, p \in PostIds : UpdatePostLoad(r, u, p, NewText)
  \/ \E r \in Slots : UpdatePostSave(r)
  \/ \E r \in Slots, u \in Users, p \in PostIds : LikeLoad(r, u, p)
  \/ \E r \in Slots : LikeSave(r)
  \/ \E r \in Slots, u \in Users, p \in PostIds : UnlikeLoad(r, u, p)
  \/ \E r \in Slots : UnlikeSave(r)
  \/ \E r \in Slots, u \in Users, p \in PostIds :
        AddCommentLoad(r, u, p, FirstText)
  \/ \E r \in Slots : AddCommentSave(r)
  \/ \E r \in Slots, u \in Users, p \in PostIds, c \in 1 .. MaxIds :
        UpdateCommentLoad(r, u, p, c, NewText)
  \/ \E r \in Slots : UpdateCommentSave(r)
  \/ \E r \in Slots, u \in Users, p \in PostIds, c \in 1 .. MaxIds :
        DeleteCommentLoad(r, u, p, c)
  \/ \E r \in Slots : DeleteCommentSave(r)

InitTwo == Init /\ inflight = 2
SpecRace == InitTwo /\ [][NextRace]_vars

\* ---------------------------------------------------------------- properties
\* the step is the save of the request in slot r, and the request is op
SaveStep(r, op) ==
  req[r].pc = "loaded" /\ req[r].op = op /\ req'[r].pc = "idle"

\* the comment of the loaded post that the request's :comment_id matches
Matched(q, i) == i \in 1 .. Len(q.doc.comments) /\ q.doc.comments[i].id = q.cid

CommentOps == {"updcomment", "delcomment"}

\* C1: a comment request whose matched comment is another user's is aborted
\* by the authorization failure: it makes the one response call, the 401,
\* and saves nothing.
C1_UnauthorizedAborts ==
  (out.op \in CommentOps /\ out.resp # <<>> /\ Head(out.resp) = 401)
    => (out.resp = <<401>> /\ out.saves = 0)

\* C2: the save step of an update comment request by a non-author of the
\* matched comment leaves the stored posts as they were.
C2_UnauthorizedUpdateKeepsPost ==
  [][\A r \in Slots :
       (SaveStep(r, "updcomment")
        /\ \E i \in 1 .. Len(req[r].doc.comments) :
             Matched(req[r], i) /\ req[r].doc.comments[i].user # req[r].caller)
       => posts' = posts]_vars

\* C3: a delete comment request by a non-author of the matched comment is
\* answered 401 and leaves the stored post as it was: the matched comment is
\* still stored, at its position, and nothing else of the post has changed.
C3_UnauthorizedDeleteKeepsPost ==
  [][\A r \in Slots :
       \A i \in 1 .. Len(req[r].doc.comments) :
         (SaveStep(r, "delcomment")
          /\ Matched(req[r], i)
          /\ req[r].doc.comments[i].user # req[r].caller)
         => /\ Head(out'.resp) = 401
            /\ Len(posts'[req[r].pid].comments) >= i
            /\ posts'[req[r].pid].comments[i] = posts[req[r].pid].comments[i]
            /\ posts' = posts]_vars

\* a delete comment request was answered 401 and every stored comment is
\* u2's: the caller was u1, the author of the post
C3_Witness ==
  /\ out.op = "delcomment" /\ out.resp # <<>> /\ Head(out.resp) = 401
  /\ posts["p1"].exists /\ posts["p1"].user = "u1"
  /\ Len(posts["p1"].comments) = 2
  /\ \A i \in 1 .. 2 : posts["p1"].comments[i].user = "u2"

\* C6: an update or delete comment request whose :comment_id matches no
\* comment of the post is answered 404 and leaves the stored post as it was.
C6_UnknownCommentNotFound ==
  [][\A r \in Slots :
       ((SaveStep(r, "updcomment") \/ SaveStep(r, "delcomment"))
        /\ ~\E i \in 1 .. Len(req[r].doc.comments) : Matched(req[r], i))
       => (out'.resp = <<404>> /\ posts' = posts)]_vars

\* ---------------------------------------------------------------- likes
\* C4: a stored like list holds at most one entry per user, whatever the
\* like and unlike requests and however two requests on the post interleave
\* between their load and their save.
C4_OneLikePerUser ==
  \A p \in PostIds :
    \A i, j \in 1 .. Len(posts[p].likes) :
      posts[p].likes[i] = posts[p].likes[j] => i = j

\* a like request is in flight, loaded before the caller's like was stored
\* by another request: the caller's entry is stored already
C4_Witness ==
  \E r \in Slots :
    /\ req[r].pc = "loaded" /\ req[r].op = "like"
    /\ \E i \in 1 .. Len(posts[req[r].pid].likes) :
         posts[req[r].pid].likes[i] = req[r].caller
    /\ ~\E i \in 1 .. Len(req[r].doc.likes) : req[r].doc.likes[i] = req[r].caller

\* how often user u is in a like list
Count(likes, u) == Cardinality({i \in 1 .. Len(likes) : likes[i] = u})

\* C7: a like request by a caller whose like is stored is answered 400 and an
\* unlike request by a caller without a stored like is answered 400; neither
\* saves, and the like list stays as it was.
C7_RejectedLikeUnlike ==
  [][\A r \in Slots, u \in Users, p \in PostIds :
       /\ (LikeLoad(r, u, p) /\ posts[p].exists /\ Count(posts[p].likes, u) > 0)
          => /\ out' = Done("like", <<400>>, 0, FALSE, Absent)
             /\ req' = req
             /\ posts' = posts
             /\ Count(posts'[p].likes, u) = 1
       /\ (UnlikeLoad(r, u, p) /\ posts[p].exists
                               /\ Count(posts[p].likes, u) = 0)
          => /\ out' = Done("unlike", <<400>>, 0, FALSE, Absent)
             /\ req' = req
             /\ posts' = posts]_vars

\* a like request was answered 400 while another user's like is stored too
C7_Witness ==
  /\ out.op = "like" /\ out.resp = <<400>>
  /\ Len(posts["p1"].likes) = 2

\* C8: like then unlike by a caller without a like restores the like list.
\* On every stored like list L and every user u not in it, the unlike code
\* applied to what the like code makes of L finds u's entry and yields L; and
\* in every step, a like save stores u's entry in front of the list the
\* request loaded, and an unlike save on a list with u's entry in front of a
\* list without u stores that list.
C8_LikeUnlikeRoundTrip ==
  /\ [](\A p \in PostIds, u \in Users :
          (posts[p].exists /\ ~AlreadyLiked(posts[p].likes, u))
          => /\ ~NotYetLiked(Unshift(posts[p].likes, u), u)
             /\ RemoveLike(Unshift(posts[p].likes, u), u) = posts[p].likes)
  /\ [][\A r \in Slots :
          /\ SaveStep(r, "like")
             => /\ out'.resp = <<200>>
                /\ posts'[req[r].pid].likes = <<req[r].caller>> \o req[r].doc.likes
          /\ (SaveStep(r, "unlike")
              /\ Head(req[r].doc.likes) = req[r].caller
              /\ Count(Tail(req[r].doc.likes), req[r].caller) = 0)
             => /\ out'.resp = <<200>>
                /\ posts'[req[r].pid].likes = Tail(req[r].doc.likes)]_vars

\* an unlike request succeeded and left the other user's like stored
C8_Witness ==
  /\ out.op = "unlike" /\ out.resp = <<200>>
  /\ Len(posts["p1"].likes) = 1

\* ---------------------------------------------------------------- posts
\* C5: an update or delete post request by a caller who is not the post's
\* author is answered 401 and leaves the stored post as it was; by the
\* author it succeeds, and get by id shows the result: the post with the new
\* text after an update, 404 after a delete.
C5_OnlyAuthorChangesPost ==
  [][/\ \A r \in Slots, u \in Users, p \in PostIds :
          ((DeletePostLoad(r, u, p) \/ UpdatePostLoad(r, u, p, NewText))
           /\ posts[p].exists /\ posts[p].user # u)
          => /\ out'.resp = <<401>> /\ out'.saves = 0
             /\ req' = req
             /\ posts' = posts
     /\ \A r \in Slots :
          /\ (SaveStep(r, "updpost") \/ SaveStep(r, "delpost"))
             => req[r].caller = posts[req[r].pid].user
          /\ SaveStep(r, "updpost")
             => /\ out'.resp = <<200>>
                /\ posts'[req[r].pid] =
                     [posts[req[r].pid] EXCEPT !.text = req[r].text]
          /\ SaveStep(r, "delpost")
             => /\ out'.resp = <<200>>
                /\ ~posts'[req[r].pid].exists
     /\ \A u \in Users, p \in PostIds :
          GetPost(u, p)
          => IF posts[p].exists
             THEN out'.resp = <<200>> /\ out'.body = posts[p]
             ELSE out'.resp = <<404>>]_vars

\* get by id answers with the post and its updated text
C5_Witness ==
  /\ out.op = "get" /\ out.resp = <<200>>
  /\ out.body.text = NewText /\ out.body = posts["p1"]

\* ---------------------------------------------------------------- comments
\* C9: an update or delete comment request by the author of the matched
\* comment changes that comment only: the update replaces its text and keeps
\* its id, author, name, avatar and position, the delete removes it, and
\* every other comment is stored as it was, in the same order, as are the
\* post's text, author and likes.
C9_CommentMutationFrame ==
  [][\A r \in Slots :
       \A i \in 1 .. Len(req[r].doc.comments) :
         LET q == req[r]
             old == q.doc.comments
             new == posts'[q.pid].comments
             rest == [posts'[q.pid] EXCEPT !.comments = old]
         IN  (Matched(q, i) /\ old[i].user = q.caller)
             => /\ SaveStep(r, "updcomment")
                   => /\ out'.resp = <<200>>
                      /\ Len(new) = Len(old)
                      /\ new[i] = [id |-> old[i].id, user |-> old[i].user,
                                   text |-> q.text, name |-> old[i].name,
                                   avatar |-> old[i].avatar]
                      /\ \A j \in 1 .. Len(old) : j # i => new[j] = old[j]
                      /\ rest = posts[q.pid]
                /\ SaveStep(r, "delcomment")
                   => /\ out'.resp = <<200>>
                      /\ Len(new) = Len(old) - 1
                      /\ \A j \in 1 .. Len(new) :
                           new[j] = IF j < i THEN old[j] ELSE old[j + 1]
                      /\ rest = posts[q.pid]]_vars

\* an update comment request succeeded and one of the two stored comments has
\* the new text, the other the text it was added with
C9_Witness ==
  /\ out.op = "updcomment" /\ out.resp = <<200>>
  /\ Len(posts["p1"].comments) = 2
  /\ \E i, j \in 1 .. 2 :
       /\ posts["p1"].comments[i].text = NewText
       /\ posts["p1"].comments[j].text = FirstText

\* ---------------------------------------------------------------- races
\* C10: the save of a read-modify-write request stores the request's copy of
\* the like and comment lists: what another request stored between the load
\* and the save is gone.  The stored lists after the save are the loaded
\* ones with the request's own change, whatever was stored before the save.
C10_LastWriterWins ==
  [][\A r \in Slots :
       LET q == req[r]
           was == q.doc
           now == posts'[q.pid]
       IN  (q.pc = "loaded" /\ posts[q.pid].exists /\ out'.resp = <<200>>)
           => /\ SaveStep(r, "like")
                 => now.likes = <<q.caller>> \o was.likes
                    /\ now.comments = was.comments
              /\ SaveStep(r, "unlike")
                 => Len(now.likes) = Len(was.likes) - 1
                    /\ Count(now.likes, q.caller) = Count(was.likes, q.caller) - 1
                    /\ now.comments = was.comments
              /\ SaveStep(r, "addcomment")
                 => now.likes = was.likes
                    /\ Len(now.comments) = Len(was.comments) + 1
                    /\ Head(now.comments).id = q.nid
                    /\ Tail(now.comments) = was.comments
              /\ SaveStep(r, "updcomment")
                 => now.likes = was.likes
                    /\ Len(now.comments) = Len(was.comments)
                    /\ \A j \in 1 .. Len(was.comments) :
                         now.comments[j].id = was.comments[j].id
              /\ SaveStep(r, "delcomment")
                 => now.likes = was.likes
                    /\ {now.comments[j].id : j \in 1 .. Len(now.comments)}
                         \subseteq
                       {was.comments[j].id : j \in 1 .. Len(was.comments)}
              /\ SaveStep(r, "updpost")
                 => now.likes = was.likes /\ now.comments = was.comments]_vars

\* two add comment requests loaded the post without comments and both were
\* answered 200; the one with the first id saved last, and its comment is
\* the only one stored
C10_Witness ==
  /\ out.op = "addcomment" /\ out.resp = <<200>> /\ out.stale
  /\ \A r \in Slots : req[r].pc = "idle"
  /\ nextId = 3
  /\ Len(posts["p1"].comments) = 1
  /\ posts["p1"].comments[1].id = 1

====
